---- MODULE Spec2Model ----
(***************************************************************************)
(* A model of mud's temporal event model: Pitch and Time                   *)
(* (src/mud/notation.py), Span (src/mud/span.py) and Piece                 *)
(* (src/mud/piece.py).                                                     *)
(*                                                                         *)
(* Numbers of beats are counted in ticks.  One tick is half of the default *)
(* quantization step, so that a raw number can lie off the default grid    *)
(* and Time's rounding is visible.  The tolerances of the code (1e-4,      *)
(* 1e-6) are far below one tick.  Ticks are exact integers: the rounding   *)
(* errors of floating-point division are not part of the model.            *)
(***************************************************************************)
EXTENDS Integers, Sequences, FiniteSets, TLC

\* ------------------------------------------------------------------ bounds
MaxRaw == 2          \* raw onsets and durations handed to Time(): 0..MaxRaw
MaxEvents == 2       \* events the client creates in one run
MaxSpans == 2        \* Span objects the client keeps alive
MaxSliceRes == 2     \* slice_resolution values 1..MaxSliceRes
MaxSortEvents == 3   \* events of the one span of SpecSort
MaxTimeRes == 3      \* resolutions 1..MaxTimeRes of the Times of SpecTime
MaxPitchStrLen == 3  \* characters of a pitch string
MaxOctave == 2       \* octaves 0..MaxOctave of the pitches compared

\* ------------------------------------------------------------- notation.py
Resolution == 2      \* settings.resolution, in ticks
NoneRes == 0         \* resolution=None: an unquantized Time

Abs(x) == IF x < 0 THEN -x ELSE x

\* Python's round(x / r): to the nearest integer, halves to the even one.
PyRound(x, r) ==
  LET q == x \div r
      m == x % r
  IN  IF 2 * m < r THEN q
      ELSE IF 2 * m > r THEN q + 1
      ELSE IF q % 2 = 0 THEN q ELSE q + 1

\* Python's int(x / r): truncation towards zero.
PyInt(x, r) == IF x >= 0 THEN x \div r ELSE -((-x) \div r)

\* Time.quantize_to: the Time it leaves behind.
quantize_to(T, resolution) ==
  [t |-> resolution * PyRound(T.t, resolution), res |-> resolution]

\* Time(time, resolution) for a number `time`.
TimeOf(time, resolution) ==
  IF resolution = NoneRes THEN [t |-> time, res |-> NoneRes]
  ELSE quantize_to([t |-> time, res |-> resolution], resolution)

\* Time(time): the default resolution.
Time(time) == TimeOf(time, Resolution)

in_beats(T) == T.t
is_quantized(T) == T.res # NoneRes
\* Time.in_resolution_steps, defined on quantized Times only.
in_resolution_steps(T) == PyInt(T.t, T.res)
is_zero(T) == Abs(T.t) < 1
\* Time.__add__
TimeAdd(a, b) == Time(a.t + b.t)

\* An object that is not a Time.
NonTime == [t |-> 0, res |-> -1]

\* Time.as_quantized: copy.copy(self), quantized; self stays as it is.
as_quantized(T, resolution) ==
  [self |-> T, new |-> quantize_to(T, resolution)]

\* Time.__eq__(self, other): the error raised, the value returned, and the
\* two operands as the call leaves them.  min() of None and a number raises
\* TypeError.
TimeEq(self, other) ==
  IF other = NonTime
  THEN [err |-> "none", val |-> FALSE, self |-> self, other |-> other]
  ELSE IF self.res = other.res
  THEN [err |-> "none",
        val |-> IF self.res # NoneRes
                THEN in_resolution_steps(self) = in_resolution_steps(other)
                ELSE self.t = other.t,
        self |-> self, other |-> other]
  ELSE IF self.res = NoneRes \/ other.res = NoneRes
  THEN [err |-> "TypeError", val |-> FALSE, self |-> self, other |-> other]
  ELSE LET res == IF self.res < other.res THEN self.res ELSE other.res
           a == as_quantized(self, res)
           b == as_quantized(other, res)
       IN  [err |-> "none",
            val |-> in_resolution_steps(a.new) = in_resolution_steps(b.new),
            self |-> a.self, other |-> b.self]

\* Pitch: a relative pitch and an octave, NoOctave for None.
NoOctave == -1
to_midi_pitch(relative_pitch, octave) == relative_pitch + (octave + 1) * 12
midi_pitch(p, assumed_octave) ==
  to_midi_pitch(p.rel, IF p.oct # NoOctave THEN p.oct ELSE assumed_octave)

\* A str is the sequence of its characters.
Digits == <<"0", "1", "2", "3", "4", "5", "6", "7", "8", "9">>
isdigit(c) == \E d \in 1..Len(Digits) : Digits[d] = c
DigitValue(c) == (CHOOSE d \in 1..Len(Digits) : Digits[d] = c) - 1

\* int(chars): the number, or ValueError if a character is not a digit.
RECURSIVE IntOfStr(_)
IntOfStr(chars) ==
  IF chars = <<>> THEN 0
  ELSE 10 * IntOfStr(SubSeq(chars, 1, Len(chars) - 1)) + DigitValue(chars[Len(chars)])
int(chars) ==
  IF chars # <<>> /\ \A i \in 1..Len(chars) : isdigit(chars[i])
  THEN [err |-> "none", val |-> IntOfStr(chars)]
  ELSE [err |-> "ValueError", val |-> 0]

\* '{}'.format(n) for n >= 0.
RECURSIVE StrOfInt(_)
StrOfInt(n) ==
  IF n < 10 THEN <<Digits[n + 1]>>
  ELSE StrOfInt(n \div 10) \o <<Digits[(n % 10) + 1]>>

str_to_relative_pitch ==
  (<<"C">> :> 0) @@ (<<"C", "#">> :> 1) @@ (<<"D", "b">> :> 1)
  @@ (<<"D">> :> 2) @@ (<<"D", "#">> :> 3) @@ (<<"E", "b">> :> 3)
  @@ (<<"E">> :> 4) @@ (<<"F">> :> 5) @@ (<<"F", "#">> :> 6)
  @@ (<<"G", "b">> :> 6) @@ (<<"G">> :> 7) @@ (<<"G", "#">> :> 8)
  @@ (<<"A", "b">> :> 8) @@ (<<"A">> :> 9) @@ (<<"A", "#">> :> 10)
  @@ (<<"B", "b">> :> 10) @@ (<<"B">> :> 11) @@ (<<"D", "-">> :> 1)
  @@ (<<"E", "-">> :> 3) @@ (<<"G", "-">> :> 6) @@ (<<"A", "-">> :> 8)
  @@ (<<"B", "-">> :> 10)

\* A table of names that spells the black keys as sharps.
relative_pitch_to_strSharps ==
  << <<"C">>, <<"C", "#">>, <<"D">>, <<"D", "#">>,
     <<"E">>, <<"F">>, <<"F", "#">>, <<"G">>,
     <<"G", "#">>, <<"A">>, <<"A", "#">>, <<"B">> >>

relative_pitch_to_str ==
  << <<"C">>, <<"D", "b">>, <<"D">>, <<"E", "b">>,
     <<"E">>, <<"F">>, <<"G", "b">>, <<"G">>,
     <<"A", "b">>, <<"A">>, <<"B", "b">>, <<"B">> >>

NoKey == -100
\* cls.str_to_relative_pitch[key], NoKey standing for KeyError.
Lookup(key) ==
  IF key \in DOMAIN str_to_relative_pitch THEN str_to_relative_pitch[key] ELSE NoKey

\* Pitch.pitch_string_to_pitch_octave_pair: the error raised, or the pair.
pitch_string_to_pitch_octave_pair(pitchstr) ==
  LET digits == {i \in 1..Len(pitchstr) : isdigit(pitchstr[i])}
      \* pos, counted from 1: the first digit, or one past the end
      pos == IF digits = {} THEN Len(pitchstr) + 1
             ELSE CHOOSE i \in digits : \A j \in digits : i <= j
      pitch_part == SubSeq(pitchstr, 1, pos - 1)
      octave_part == SubSeq(pitchstr, pos, Len(pitchstr))
      octave == IF digits = {} THEN [err |-> "none", val |-> NoOctave]
                ELSE int(octave_part)
      last == pitch_part[Len(pitch_part)]
      base == Lookup(SubSeq(pitch_part, 1, Len(pitch_part) - 1))
      wrap(pitch) == IF pitch < 0 THEN pitch + 12
                     ELSE IF pitch >= 12 THEN pitch - 12 ELSE pitch
      failed(kind) == [err |-> kind, pitch |-> 0, octave |-> NoOctave]
      found(pitch) == IF pitch >= 0 /\ pitch < 12
                      THEN [err |-> "none", pitch |-> pitch, octave |-> octave.val]
                      ELSE failed("AssertionError")
  IN  IF octave.err # "none" THEN failed(octave.err)
      ELSE IF Lookup(pitch_part) # NoKey THEN found(Lookup(pitch_part))
      ELSE IF pitch_part = <<>> THEN failed("IndexError")
      ELSE IF last = "#"
           THEN IF base = NoKey THEN failed("KeyError") ELSE found(wrap(base + 1))
      ELSE IF last \in {"-", "b"}
           THEN IF base = NoKey THEN failed("KeyError") ELSE found(wrap(base - 1))
      ELSE failed("ValueError")

\* Pitch(pitch, octave) for a str pitch.
PitchOfStr(pitchstr, octave) ==
  LET r == pitch_string_to_pitch_octave_pair(pitchstr)
  IN  IF r.err # "none" THEN [err |-> r.err, pitch |-> [rel |-> 0, oct |-> NoOctave]]
      ELSE IF octave # NoOctave /\ r.octave # NoOctave
      THEN [err |-> "ValueError", pitch |-> [rel |-> 0, oct |-> NoOctave]]
      ELSE [err |-> "none",
            pitch |-> [rel |-> r.pitch,
                       oct |-> IF r.octave = NoOctave THEN octave ELSE r.octave]]

\* Pitch.name
name(p) ==
  IF p.oct = NoOctave THEN relative_pitch_to_str[p.rel + 1]
  ELSE relative_pitch_to_str[p.rel + 1] \o StrOfInt(p.oct)

\* Pitch.compare, for two pitches with octaves.
compare(a, b) == a.rel + 12 * a.oct - b.rel + 12 * b.oct

PitchB3 == [rel |-> 11, oct |-> 3]
PitchC4 == [rel |-> 0, oct |-> 4]
PitchC == [rel |-> 0, oct |-> NoOctave]
NoPitch == [rel |-> -1, oct |-> NoOctave]

\* Note(pitch, duration) and Rest(duration): the duration becomes Time(duration).
Note(pitch, duration) == [kind |-> "Note", pitch |-> pitch, dur |-> Time(duration)]
Rest(duration) == [kind |-> "Rest", pitch |-> NoPitch, dur |-> Time(duration)]

\* Event(payload, time): a payload and its onset.
Event(payload, time) ==
  [kind |-> payload.kind, pitch |-> payload.pitch, dur |-> payload.dur, time |-> time]
unwrap(e) == [kind |-> e.kind, pitch |-> e.pitch, dur |-> e.dur]
\* type(x) of an argument of append_event: "Event" for an object built by
\* Event(...), "Note" or "Rest" for a bare payload.
TypeOf(x) == IF "time" \in DOMAIN x THEN "Event" ELSE x.kind

\* ------------------------------------------------------------------ span.py
\* A Span object: its _offset and its _events.
SpanObj(offset, events) == [offset |-> offset, events |-> events]
Ok(s) == [err |-> "none", span |-> s]
Raise(kind, s) == [err |-> kind, span |-> s]

events_requiring_nonzero_duration == {"Note", "Rest"}

\* Span.append_event: the error raised and the event list after the call.
\* For a Note or a Rest, event.duration is a bound method, and asking it for
\* is_zero raises AttributeError; an Event passes the test of its type and is
\* appended whatever its duration.
append_event(events, event) ==
  IF TypeOf(event) \in events_requiring_nonzero_duration
  THEN [err |-> "AttributeError", events |-> events]
  ELSE [err |-> "none", events |-> Append(events, event)]

EndPosition(e) == in_beats(e.time) + in_beats(e.dur)
SetMax(S) == CHOOSE x \in S : \A y \in S : y <= x
\* Span.calculate_span_length on a non-empty event list (max() of an empty
\* list raises ValueError).
calculate_span_length(events) ==
  SetMax({EndPosition(events[i]) : i \in 1..Len(events)})

\* Span.pad_to_length.
pad_to_length(s, length) ==
  IF s.events = <<>> THEN Raise("ValueError", s)
  ELSE LET actual_length == calculate_span_length(s.events)
           to_pad == length - actual_length
       IN  IF length < actual_length THEN Ok(s)
           ELSE IF to_pad <= 0 THEN Ok(s)
           ELSE Ok(SpanObj(s.offset,
                     Append(s.events, Event(Rest(to_pad), Time(actual_length)))))

num_events(s) == Len(s.events)

\* Span.length: a Time, or ValueError on an empty span.
length(s) ==
  IF s.events = <<>> THEN [err |-> "ValueError", time |-> Time(0)]
  ELSE [err |-> "none", time |-> Time(calculate_span_length(s.events))]

\* Span.move_offset_to_events.
move_offset_to_events(s) ==
  SpanObj(Time(0),
          [i \in 1..Len(s.events) |->
             [s.events[i] EXCEPT !.time = TimeAdd(s.events[i].time, s.offset)]])

\* A sort that compares relative pitches and forgets the octave.
SortKeyRelativePitch(e) ==
  << in_resolution_steps(e.time),
     IF e.pitch # NoPitch THEN e.pitch.rel ELSE 0 >>

\* The key of Span.sort.
SortKey(e) ==
  << in_resolution_steps(e.time),
     IF e.pitch # NoPitch THEN midi_pitch(e.pitch, 4) ELSE 0 >>
KeyLess(a, b) == a[1] < b[1] \/ (a[1] = b[1] /\ a[2] < b[2])

\* list.sort is stable: an element goes behind every element whose key is
\* not greater than its own.
InsertSorted(sorted, e) ==
  LET later == {i \in 1..Len(sorted) : KeyLess(SortKey(e), SortKey(sorted[i]))}
      pos == IF later = {} THEN Len(sorted) + 1
             ELSE CHOOSE i \in later : \A j \in later : i <= j
  IN  SubSeq(sorted, 1, pos - 1) \o <<e>> \o SubSeq(sorted, pos, Len(sorted))

RECURSIVE SortEvents(_)
SortEvents(events) ==
  IF events = <<>> THEN <<>>
  ELSE InsertSorted(SortEvents(SubSeq(events, 1, Len(events) - 1)),
                    events[Len(events)])

\* Span.sort: in_resolution_steps raises ValueError on an unquantized onset,
\* and list.sort then leaves the list as it was.
sort(s) ==
  IF \E i \in 1..Len(s.events) : ~is_quantized(s.events[i].time)
  THEN Raise("ValueError", s)
  ELSE Ok(SpanObj(s.offset, SortEvents(s.events)))

RECURSIVE AppendAll(_, _)
AppendAll(events, input) ==
  IF input = <<>> THEN events
  ELSE AppendAll(append_event(events, Head(input)).events, Tail(input))

NoLength == -1
\* Span.__init__(events, offset, length, sort); offset is already a Time or
\* Time(number).
SpanInit(input, offset, len, do_sort) ==
  LET s0 == SpanObj(offset, AppendAll(<<>>, input))
      padded ==
        IF len = NoLength THEN Ok(s0)
        ELSE IF s0.events = <<>> THEN Raise("ValueError", s0)
        ELSE LET actual_length == calculate_span_length(s0.events)
             IN  IF ~(actual_length <= len) THEN Raise("AssertionError", s0)
                 ELSE IF ~(actual_length >= len)
                      THEN Raise("AssertionError", pad_to_length(s0, len).span)
                 ELSE pad_to_length(s0, len)
  IN  IF padded.err # "none" THEN padded
      ELSE IF do_sort THEN sort(padded.span)
      ELSE padded

\* A Span argument is a reference into the heap; NonSpan is any other object.
NonSpan == 0

\* One iteration of _overlay_two_spans: span_b's events, shifted by span_b's
\* offset, appended to span_a.
overlay_two_spans(span_a, span_b) ==
  SpanObj(span_a.offset,
          span_a.events \o
          [i \in 1..Len(span_b.events) |->
             Event(unwrap(span_b.events[i]),
                   TimeAdd(span_b.events[i].time, span_b.offset))])

\* An overlay that works on args[0] itself instead of a copy of it.
OverlayTargetAlias(h, args) == args[1]

\* The object overlay works on: deepcopy(args[0]) is a fresh object, put
\* behind the objects of the heap.
OverlayTarget(h, args) == Len(h) + 1

RECURSIVE overlay_rest(_, _, _, _)
overlay_rest(w, result, args, i) ==
  IF i > Len(args) THEN [err |-> "none", heap |-> w]
  ELSE IF args[i] = NonSpan THEN [err |-> "ValueError", heap |-> w]
  ELSE overlay_rest([w EXCEPT ![result] = overlay_two_spans(w[result], w[args[i]])],
                    result, args, i + 1)

NoSpan == SpanObj(Time(0), <<>>)
\* Span.overlay(*args) called with the heap h: the error raised, the heap
\* afterwards and the object returned.
overlay(h, args) ==
  IF args = <<>> THEN [err |-> "IndexError", heap |-> h, ret |-> NoSpan]
  ELSE IF args[1] = NonSpan THEN [err |-> "AttributeError", heap |-> h, ret |-> NoSpan]
  ELSE LET n == Len(h)
           result == OverlayTarget(h, args)
           w0 == Append(h, h[args[1]])
           w1 == [w0 EXCEPT ![result] = move_offset_to_events(w0[result])]
           r == overlay_rest(w1, result, args, 2)
           sorted == sort(r.heap[result])
           w2 == [r.heap EXCEPT ![result] = sorted.span]
       IN  IF r.err # "none"
           THEN [err |-> r.err, heap |-> SubSeq(r.heap, 1, n), ret |-> NoSpan]
           ELSE IF sorted.err # "none"
           THEN [err |-> sorted.err, heap |-> SubSeq(w2, 1, n), ret |-> NoSpan]
           ELSE [err |-> "none", heap |-> SubSeq(w2, 1, n), ret |-> w2[result]]

\* Span.concat(*args).
concat(h, args) == [err |-> "NotImplementedError", heap |-> h, ret |-> NoSpan]

\* TimeSlice(span, slice_range).sliced_events(): the events of the span
\* whose onset lies in [start, end).
sliced_events(s, slice_range) ==
  SelectSeq(s.events,
            LAMBDA e : slice_range[1] <= in_beats(e.time) /\ in_beats(e.time) < slice_range[2])

\* ----------------------------------------------------------------- piece.py
\* A Piece is its list _spans, of references into the heap.
\* Piece.from_spans(*spans): the error raised and the list of the new Piece.
from_spans(spans) ==
  IF \E i \in 1..Len(spans) : spans[i] = NonSpan
  THEN [err |-> "AssertionError", spans |-> <<>>]
  ELSE [err |-> "none", spans |-> spans]

\* Piece.as_span
as_span(h, spans) == overlay(h, spans)

RECURSIVE SumEvents(_, _)
SumEvents(h, spans) ==
  IF spans = <<>> THEN 0
  ELSE num_events(h[Head(spans)]) + SumEvents(h, Tail(spans))
\* Piece.count_events
count_events(h, spans) == SumEvents(h, spans)

\* Piece.discard_rests: Span has no method discard_rests, so the first bar
\* raises AttributeError.
discard_rests(h, spans) ==
  IF spans = <<>> THEN [err |-> "none", heap |-> h]
  ELSE [err |-> "AttributeError", heap |-> h]

\* ------------------------------------------------------------------ inputs
RawNumbers == 0..MaxRaw
Pitches == {PitchB3, PitchC}
Payloads == {Note(p, d) : p \in Pitches, d \in RawNumbers}
            \cup {Rest(d) : d \in RawNumbers}
\* Onsets: Time(x).  Offsets: a number x, stored as Time(x), or an
\* unquantized Time(x, resolution=None) that lies off the default grid (on
\* the grid it adds up like Time(x)).
OnsetInputs == {Time(x) : x \in RawNumbers}
OffsetInputs == {Time(x) : x \in RawNumbers}
                \cup {TimeOf(x, NoneRes) : x \in {y \in RawNumbers : y % Resolution # 0}}
EventInputs == {Event(p, t) : p \in Payloads, t \in OnsetInputs}
LengthInputs == 0..(2 * MaxRaw)
SliceResolutions == 1..MaxSliceRes
\* slice_resolution is any number: zero and a negative one too.
AnySliceResolutions == {-1, 0} \cup SliceResolutions
\* Windows the client pulls from one generator before it gives up; more than
\* any span of the model has at a positive slice_resolution.
MaxPulls == 3 * MaxRaw + 2

\* Time(x, resolution=r), r a number or None, for SpecTime.
TimeRaw == 0..(2 * MaxRaw)
TimeResolutions == 1..MaxTimeRes
TimeInputs == {TimeOf(x, r) : x \in TimeRaw, r \in TimeResolutions \cup {NoneRes}}

SeqsUpTo(S, n) == UNION {[1..k -> S] : k \in 0..n}

\* ------------------------------------------------------------------- state
VARIABLES
  heap,      \* the Span objects the client holds, by reference 1..Len(heap)
  pre,       \* the heap as it was before the last call
  call,      \* the last call: its name, its arguments and the error it raised
  ret,       \* what the last call returned
  gen,       \* the generator made by generate_slices, and its position
  yielded,   \* the windows the generator has yielded so far
  times,     \* the Time objects the client holds, by index
  piece      \* the Piece the client holds: the references of its bars

vars == <<heap, pre, call, ret, gen, yielded, times, piece>>

\* What a call returns: a Span, a Time, or another value (val).
NoRet == [span |-> NoSpan, time |-> Time(0), val |-> 0]
\* No Piece yet.
NoPiece == <<0>>
NoCall == [op |-> "none", ref |-> 0, args |-> <<>>, input |-> <<>>,
           offset |-> Time(0), num |-> NoLength, flag |-> FALSE, err |-> "none"]
GenIdle == [state |-> "idle", ref |-> 0, r |-> 0, t |-> 0]

Init ==
  /\ heap = <<>>
  /\ pre = <<>>
  /\ call = NoCall
  /\ ret = NoRet
  /\ gen = GenIdle
  /\ yielded = <<>>
  /\ times = <<>>
  /\ piece = NoPiece

Refs == 1..Len(heap)
\* The client makes its next call once it has taken the result of the last
\* one, and makes no call between two pulls of a running generator.
Quiet == call.op = "none" /\ gen.state # "running"

RECURSIVE SumLen(_)
SumLen(h) == IF h = <<>> THEN 0 ELSE Len(Head(h).events) + SumLen(Tail(h))
\* Events the client may still create.
Budget == IF SumLen(heap) >= MaxEvents THEN 0 ELSE MaxEvents - SumLen(heap)

\* Span(events, offset=offset, length=len, sort=do_sort), the arguments drawn
\* from the given sets.  A length makes the constructor pad, which may create
\* one more event.
ConstructWith(Inputs, Offsets, Lengths) ==
  /\ Quiet
  /\ Len(heap) < MaxSpans
  /\ \E input \in Inputs, offset \in Offsets, len \in Lengths, do_sort \in BOOLEAN :
       LET r == SpanInit(input, offset, len, do_sort)
       IN  /\ heap' = IF r.err = "none" THEN Append(heap, r.span) ELSE heap
           /\ call' = [NoCall EXCEPT !.op = "Span", !.input = input, !.offset = offset,
                                     !.num = len, !.flag = do_sort, !.err = r.err]
  /\ pre' = heap
  /\ ret' = NoRet
  /\ UNCHANGED <<gen, yielded>>
  /\ UNCHANGED <<times, piece>>

Construct ==
  \/ ConstructWith(SeqsUpTo(EventInputs, Budget), OffsetInputs, {NoLength})
  \/ /\ Budget > 0
     /\ ConstructWith(SeqsUpTo(EventInputs, Budget - 1), OffsetInputs, LengthInputs)

\* span.append_event(event)
AppendEvent ==
  /\ Quiet
  /\ Budget > 0
  /\ \E ref \in Refs, event \in EventInputs \cup Payloads :
       LET r == append_event(heap[ref].events, event)
       IN  /\ heap' = [heap EXCEPT ![ref].events = r.events]
           /\ call' = [NoCall EXCEPT !.op = "append_event", !.ref = ref,
                                     !.input = <<event>>, !.err = r.err]
  /\ pre' = heap
  /\ ret' = NoRet
  /\ UNCHANGED <<gen, yielded>>
  /\ UNCHANGED <<times, piece>>

\* span.pad_to_length(len)
PadToLength ==
  /\ Quiet
  /\ Budget > 0
  /\ \E ref \in Refs, len \in LengthInputs :
       LET r == pad_to_length(heap[ref], len)
       IN  /\ heap' = [heap EXCEPT ![ref] = r.span]
           /\ call' = [NoCall EXCEPT !.op = "pad_to_length", !.ref = ref,
                                     !.num = len, !.err = r.err]
  /\ pre' = heap
  /\ ret' = NoRet
  /\ UNCHANGED <<gen, yielded>>
  /\ UNCHANGED <<times, piece>>

\* span.length()
Length ==
  /\ Quiet
  /\ \E ref \in Refs :
       LET r == length(heap[ref])
       IN  /\ call' = [NoCall EXCEPT !.op = "length", !.ref = ref, !.err = r.err]
           /\ ret' = [NoRet EXCEPT !.time = r.time]
  /\ pre' = heap
  /\ UNCHANGED <<heap, gen, yielded>>
  /\ UNCHANGED <<times, piece>>

\* span.move_offset_to_events()
MoveOffsetToEvents ==
  /\ Quiet
  /\ \E ref \in Refs :
       /\ heap' = [heap EXCEPT ![ref] = move_offset_to_events(@)]
       /\ call' = [NoCall EXCEPT !.op = "move_offset_to_events", !.ref = ref]
  /\ pre' = heap
  /\ ret' = NoRet
  /\ UNCHANGED <<gen, yielded>>
  /\ UNCHANGED <<times, piece>>

\* span.sort()
Sort ==
  /\ Quiet
  /\ \E ref \in Refs :
       LET r == sort(heap[ref])
       IN  /\ heap' = [heap EXCEPT ![ref] = r.span]
           /\ call' = [NoCall EXCEPT !.op = "sort", !.ref = ref, !.err = r.err]
  /\ pre' = heap
  /\ ret' = NoRet
  /\ UNCHANGED <<gen, yielded>>
  /\ UNCHANGED <<times, piece>>

\* Span.overlay(*args)
Overlay ==
  /\ Quiet
  /\ \E args \in SeqsUpTo(Refs \cup {NonSpan}, MaxSpans) :
       LET r == overlay(heap, args)
       IN  /\ heap' = r.heap
           /\ call' = [NoCall EXCEPT !.op = "overlay", !.args = args, !.err = r.err]
           /\ ret' = [NoRet EXCEPT !.span = r.ret]
  /\ pre' = heap
  /\ UNCHANGED <<gen, yielded>>
  /\ UNCHANGED <<times, piece>>

\* Span.concat(*args)
Concat ==
  /\ Quiet
  /\ \E args \in SeqsUpTo(Refs, MaxSpans) :
       LET r == concat(heap, args)
       IN  /\ heap' = r.heap
           /\ call' = [NoCall EXCEPT !.op = "concat", !.args = args, !.err = r.err]
           /\ ret' = [NoRet EXCEPT !.span = r.ret]
  /\ pre' = heap
  /\ UNCHANGED <<gen, yielded>>
  /\ UNCHANGED <<times, piece>>

\* span.generate_slices(slice_resolution): the generator object; its body
\* has not run yet.
GenerateSlicesWith(Resolutions) ==
  /\ Quiet
  /\ \E ref \in Refs, r \in Resolutions :
       /\ gen' = [state |-> "running", ref |-> ref, r |-> r, t |-> 0]
       /\ call' = [NoCall EXCEPT !.op = "generate_slices", !.ref = ref, !.num = r]
  /\ yielded' = <<>>
  /\ pre' = heap
  /\ ret' = NoRet
  /\ UNCHANGED heap
  /\ UNCHANGED <<times, piece>>

GenerateSlices == GenerateSlicesWith(SliceResolutions)

\* next(generator): runs the loop of generate_slices up to its next yield.
NextSlice ==
  /\ gen.state = "running"
  /\ IF heap[gen.ref].events = <<>>
     THEN /\ gen' = [gen EXCEPT !.state = "raised"]
          /\ call' = [NoCall EXCEPT !.op = "next", !.ref = gen.ref, !.num = gen.r,
                                    !.err = "ValueError"]
          /\ UNCHANGED yielded
     ELSE IF gen.t < calculate_span_length(heap[gen.ref].events)
     THEN /\ Len(yielded) < MaxPulls
          /\ yielded' = Append(yielded, <<gen.t, gen.t + gen.r>>)
          /\ gen' = [gen EXCEPT !.t = gen.t + gen.r]
          /\ call' = [NoCall EXCEPT !.op = "next", !.ref = gen.ref, !.num = gen.r]
     ELSE /\ gen' = [gen EXCEPT !.state = "exhausted"]
          /\ call' = [NoCall EXCEPT !.op = "next", !.ref = gen.ref, !.num = gen.r,
                                    !.err = "StopIteration"]
          /\ UNCHANGED yielded
  /\ pre' = heap
  /\ ret' = NoRet
  /\ UNCHANGED heap
  /\ UNCHANGED <<times, piece>>

\* The caller takes the result of the last call and goes on.
Return ==
  /\ call.op # "none"
  /\ gen.state # "running"
  /\ call' = NoCall
  /\ pre' = <<>>
  /\ ret' = NoRet
  /\ gen' = GenIdle
  /\ yielded' = <<>>
  /\ UNCHANGED heap
  /\ UNCHANGED <<times, piece>>

Next ==
  \/ Return
  \/ Construct
  \/ AppendEvent
  \/ PadToLength
  \/ Length
  \/ MoveOffsetToEvents
  \/ Sort
  \/ Overlay
  \/ Concat
  \/ GenerateSlices
  \/ NextSlice

Spec == Init /\ [][Next]_vars

\* One span of up to MaxSortEvents events, built sorted or unsorted, then
\* sorted again.  Its events: notes of three pitches, two of them with the
\* same MIDI pitch under octave 4, and rests, at onsets on the grid or at an
\* unquantized onset, which sort() refuses.
SortPayloads == {Note(p, MaxRaw) : p \in Pitches \cup {PitchC4}} \cup {Rest(MaxRaw)}
SortEventInputs ==
  {Event(p, t) : p \in SortPayloads, t \in OnsetInputs \cup {TimeOf(MaxRaw, NoneRes)}}
ConstructSort ==
  /\ heap = <<>>
  /\ ConstructWith(SeqsUpTo(SortEventInputs, MaxSortEvents), {Time(0)}, {NoLength})

SortNext ==
  \/ Return
  \/ ConstructSort
  \/ Sort

SpecSort == Init /\ [][SortNext]_vars

\* Spans of notes at an offset on the grid, overlaid.
OverlayEventInputs ==
  {Event(Note(p, MaxRaw), t) : p \in Pitches, t \in {Time(0), Time(MaxRaw)}}
OverlayOffsets == {Time(0), Time(MaxRaw)}
ConstructOverlay ==
  ConstructWith(SeqsUpTo(OverlayEventInputs, Budget), OverlayOffsets, {NoLength})

OverlayNext ==
  \/ Return
  \/ ConstructOverlay
  \/ Overlay

SpecOverlay == Init /\ [][OverlayNext]_vars

\* Bars of notes and rests, at any offset.
PieceEventInputs ==
  {Event(p, t) : p \in {Note(PitchC, MaxRaw), Rest(MaxRaw)}, t \in {Time(0), Time(MaxRaw)}}
ConstructBar ==
  /\ piece = NoPiece
  /\ ConstructWith(SeqsUpTo(PieceEventInputs, Budget), OffsetInputs, {NoLength})

\* Piece.from_spans(*spans)
FromSpans ==
  /\ Quiet
  /\ piece = NoPiece
  /\ \E spans \in SeqsUpTo(Refs \cup {NonSpan}, MaxSpans) :
       LET r == from_spans(spans)
       IN  /\ piece' = IF r.err = "none" THEN r.spans ELSE piece
           /\ call' = [NoCall EXCEPT !.op = "from_spans", !.args = spans, !.err = r.err]
  /\ pre' = heap
  /\ ret' = NoRet
  /\ UNCHANGED <<heap, gen, yielded, times>>

\* piece.as_span()
AsSpan ==
  /\ Quiet
  /\ piece # NoPiece
  /\ LET r == as_span(heap, piece)
     IN  /\ heap' = r.heap
         /\ call' = [NoCall EXCEPT !.op = "as_span", !.args = piece, !.err = r.err]
         /\ ret' = [NoRet EXCEPT !.span = r.ret]
  /\ pre' = heap
  /\ UNCHANGED <<gen, yielded, times, piece>>

\* piece.count_events()
CountEvents ==
  /\ Quiet
  /\ piece # NoPiece
  /\ call' = [NoCall EXCEPT !.op = "count_events", !.args = piece]
  /\ ret' = [NoRet EXCEPT !.val = count_events(heap, piece)]
  /\ pre' = heap
  /\ UNCHANGED <<heap, gen, yielded, times, piece>>

\* piece.discard_rests()
DiscardRests ==
  /\ Quiet
  /\ piece # NoPiece
  /\ LET r == discard_rests(heap, piece)
     IN  /\ heap' = r.heap
         /\ call' = [NoCall EXCEPT !.op = "discard_rests", !.args = piece, !.err = r.err]
  /\ pre' = heap
  /\ ret' = NoRet
  /\ UNCHANGED <<gen, yielded, times, piece>>

PieceNext ==
  \/ Return
  \/ ConstructBar
  \/ FromSpans
  \/ AsSpan
  \/ CountEvents
  \/ DiscardRests

SpecPiece == Init /\ [][PieceNext]_vars

\* Spans built and padded, sliced at any slice_resolution.
GenerateSlicesAny == GenerateSlicesWith(AnySliceResolutions)

SlicesNext ==
  \/ Return
  \/ Construct
  \/ PadToLength
  \/ GenerateSlicesAny
  \/ NextSlice

SpecSlices == Init /\ [][SlicesNext]_vars

\* Pitch strings: every key of the name table, and every string of up to
\* MaxPitchStrLen of these characters.
PitchChars == {"C", "D", "H", "#", "b", "-", "4"}
PitchStrings == SeqsUpTo(PitchChars, MaxPitchStrLen) \cup DOMAIN str_to_relative_pitch
PitchesWithOctave == [rel : 0..11, oct : 0..MaxOctave]

\* Pitch.pitch_string_to_pitch_octave_pair(pitchstr)
ParsePitch ==
  /\ Quiet
  /\ \E pitchstr \in PitchStrings :
       LET r == pitch_string_to_pitch_octave_pair(pitchstr)
       IN  /\ call' = [NoCall EXCEPT !.op = "pitch_string_to_pitch_octave_pair",
                                     !.input = <<pitchstr>>, !.err = r.err]
           /\ ret' = [NoRet EXCEPT !.val = <<r.pitch, r.octave>>]
  /\ UNCHANGED <<heap, pre, gen, yielded, times, piece>>

\* Pitch(pitchstr).name()
PitchName ==
  /\ Quiet
  /\ \E pitchstr \in PitchStrings :
       LET r == PitchOfStr(pitchstr, NoOctave)
       IN  /\ call' = [NoCall EXCEPT !.op = "Pitch.name", !.input = <<pitchstr>>,
                                     !.err = r.err]
           /\ ret' = [NoRet EXCEPT !.val = IF r.err = "none" THEN name(r.pitch) ELSE <<>>]
  /\ UNCHANGED <<heap, pre, gen, yielded, times, piece>>

\* Pitch.compare(a, b)
ComparePitches ==
  /\ Quiet
  /\ \E a, b \in PitchesWithOctave :
       /\ call' = [NoCall EXCEPT !.op = "Pitch.compare", !.input = <<a, b>>]
       /\ ret' = [NoRet EXCEPT !.val = compare(a, b)]
  /\ UNCHANGED <<heap, pre, gen, yielded, times, piece>>

PitchNext ==
  \/ Return
  \/ ParsePitch
  \/ PitchName
  \/ ComparePitches

SpecPitch == Init /\ [][PitchNext]_vars

\* The client makes three Times a, b, c.
MakeTimes ==
  /\ Quiet
  /\ times = <<>>
  /\ \E a, b, c \in TimeInputs :
       /\ times' = <<a, b, c>>
       /\ call' = [NoCall EXCEPT !.op = "Time", !.input = <<a, b, c>>]
  /\ ret' = NoRet
  /\ UNCHANGED <<heap, pre, gen, yielded, piece>>

\* times[i] == other, other one of the client's Times or another object.
CompareTimes ==
  /\ Quiet
  /\ times # <<>>
  /\ \E i \in 1..Len(times), j \in 0..Len(times) :
       LET other == IF j = 0 THEN NonTime ELSE times[j]
           r == TimeEq(times[i], other)
           t1 == [times EXCEPT ![i] = r.self]
       IN  /\ times' = IF j = 0 THEN t1 ELSE [t1 EXCEPT ![j] = r.other]
           /\ call' = [NoCall EXCEPT !.op = "Time.__eq__", !.args = <<i, j>>,
                                     !.input = <<times[i], other>>, !.err = r.err]
           /\ ret' = [NoRet EXCEPT !.val = r.val]
  /\ UNCHANGED <<heap, pre, gen, yielded, piece>>

TimeNext ==
  \/ Return
  \/ MakeTimes
  \/ CompareTimes

SpecTime == Init /\ [][TimeNext]_vars

\* ------------------------------------------------------------------ claims
\* The Span object the last Span(...) call built.
Built == heap[Len(heap)]
Constructed == call.op = "Span" /\ call.err = "none"
NonZeroInput == \A i \in 1..Len(call.input) : ~is_zero(call.input[i].dur)
\* The natural length of the events handed to the last Span(...) call.
InputLength == calculate_span_length(call.input)

\* C1: no Span retains an event whose payload duration is zero, and a Span
\* built from one event of duration zero has no events.
C1_NoZeroDurationEvent ==
  /\ \A ref \in Refs : \A i \in 1..Len(heap[ref].events) :
       ~is_zero(heap[ref].events[i].dur)
  /\ \A i \in 1..Len(ret.span.events) : ~is_zero(ret.span.events[i].dur)
  /\ (Constructed /\ Len(call.input) = 1 /\ is_zero(call.input[1].dur))
       => num_events(Built) = 0

\* C2: Span(events, length=T) with natural length L <= T succeeds and has
\* length T; when L < T it holds one more event, a Rest of duration T - L at
\* onset L.
C2_PaddedConstruction ==
  (/\ call.op = "Span"
   /\ call.num # NoLength
   /\ call.input # <<>>
   /\ NonZeroInput
   /\ InputLength <= call.num)
  => /\ call.err = "none"
     /\ length(Built).err = "none"
     /\ in_beats(length(Built).time) = call.num
     /\ InputLength < call.num =>
          /\ num_events(Built) = Len(call.input) + 1
          /\ \E i \in 1..num_events(Built) :
               /\ Built.events[i].kind = "Rest"
               /\ in_beats(Built.events[i].dur) = call.num - InputLength
               /\ in_beats(Built.events[i].time) = InputLength

\* C3: length() is the maximum of onset + duration over the events, and zero
\* for a span without events.
C3_LengthIsMaxEnd ==
  call.op = "length" =>
    /\ call.err = "none"
    /\ in_beats(ret.time) =
         IF heap[call.ref].events = <<>> THEN 0
         ELSE SetMax({in_beats(heap[call.ref].events[i].time)
                        + in_beats(heap[call.ref].events[i].dur) :
                      i \in 1..Len(heap[call.ref].events)})

\* The key the events of a sorted span are ordered by: the onset's step
\* count, then the MIDI pitch (octave 4 for a pitch without octave), a Rest
\* counting as pitch 0.
ClaimKey(e) ==
  << e.time.t \div e.time.res,
     IF e.kind = "Rest" THEN 0
     ELSE e.pitch.rel + 12 * ((IF e.pitch.oct = NoOctave THEN 4 ELSE e.pitch.oct) + 1) >>
ClaimKeyLess(a, b) == a[1] < b[1] \/ (a[1] = b[1] /\ a[2] < b[2])
SortedByKey(events) ==
  \A i, j \in 1..Len(events) :
    i < j => ~ClaimKeyLess(ClaimKey(events[j]), ClaimKey(events[i]))
WithKey(events, k) == SelectSeq(events, LAMBDA e : ClaimKey(e) = k)
\* The same events, those of equal key in the order they had.
StablePermutation(before, after) ==
  /\ Len(before) = Len(after)
  /\ \A i \in 1..Len(before) :
       WithKey(before, ClaimKey(before[i])) = WithKey(after, ClaimKey(before[i]))
RestBeforeNotes(events) ==
  \A i, j \in 1..Len(events) :
    (/\ events[i].kind = "Rest"
     /\ events[j].kind = "Note"
     /\ ClaimKey(events[i])[1] = ClaimKey(events[j])[1]) => i < j

\* C4: after sort(), and after a construction that sorts, the span holds the
\* events it held, ordered by onset step count, then MIDI pitch with a Rest as
\* pitch 0 (before every Note of its onset), equal keys in their input order.
C4_SortOrder ==
  /\ (call.op = "sort" /\ call.err = "none") =>
       /\ SortedByKey(heap[call.ref].events)
       /\ RestBeforeNotes(heap[call.ref].events)
       /\ StablePermutation(pre[call.ref].events, heap[call.ref].events)
       /\ heap[call.ref].offset = pre[call.ref].offset
  /\ (Constructed /\ call.flag) =>
       /\ SortedByKey(Built.events)
       /\ RestBeforeNotes(Built.events)
       /\ NonZeroInput => StablePermutation(call.input, Built.events)

\* sort() reordered a span that holds a Rest and a Note at one onset and two
\* different events of equal key.
C4_Witness ==
  /\ call.op = "sort"
  /\ call.err = "none"
  /\ heap[call.ref].events # pre[call.ref].events
  /\ \E i, j \in 1..Len(heap[call.ref].events) :
       /\ heap[call.ref].events[i].kind = "Rest"
       /\ heap[call.ref].events[j].kind = "Note"
       /\ heap[call.ref].events[i].time = heap[call.ref].events[j].time
  /\ \E i, j \in 1..Len(heap[call.ref].events) :
       /\ i < j
       /\ heap[call.ref].events[i] # heap[call.ref].events[j]
       /\ ClaimKey(heap[call.ref].events[i]) = ClaimKey(heap[call.ref].events[j])

\* An event as (payload, absolute onset in ticks).
Placed(e, shift) ==
  [kind |-> e.kind, pitch |-> e.pitch, dur |-> e.dur, onset |-> in_beats(e.time) + shift]
PlacedEvents(s) == [i \in 1..Len(s.events) |-> Placed(s.events[i], in_beats(s.offset))]
RECURSIVE PlacedUnion(_, _)
PlacedUnion(h, args) ==
  IF args = <<>> THEN <<>>
  ELSE PlacedEvents(h[Head(args)]) \o PlacedUnion(h, Tail(args))
Count(seq, x) == Cardinality({i \in 1..Len(seq) : seq[i] = x})
SameBag(a, b) ==
  /\ Len(a) = Len(b)
  /\ \A i \in 1..Len(a) : Count(a, a[i]) = Count(b, a[i])

\* C5: overlay(s1..sN) returns a span of offset zero whose events are the
\* events of all inputs, none lost or added, each at its onset plus the offset
\* of its span, sorted by (onset, pitch).
C5_OverlayIsShiftedUnion ==
  (call.op = "overlay" /\ call.err = "none") =>
    /\ in_beats(ret.span.offset) = 0
    /\ SameBag(PlacedEvents(ret.span), PlacedUnion(pre, call.args))
    /\ SortedByKey(ret.span.events)

\* C6: overlay raises ValueError whenever one of its arguments is not a Span,
\* wherever that argument stands.
C6_NotASpanIsValueError ==
  (call.op = "overlay" /\ \E i \in 1..Len(call.args) : call.args[i] = NonSpan)
    => call.err = "ValueError"

\* C7: overlay leaves its arguments as they were: the same offset, the same
\* events in the same order, each with its onset and payload.
C7_OverlayKeepsArguments ==
  (call.op = "overlay" /\ call.err = "none") =>
    /\ Len(heap) = Len(pre)
    /\ \A i \in 1..Len(call.args) : heap[call.args[i]] = pre[call.args[i]]

\* overlay returned for two different spans, the first one with events and
\* an offset to fold into them, the second one with events to shift.
C7_Witness ==
  /\ call.op = "overlay"
  /\ call.err = "none"
  /\ Len(call.args) >= 2
  /\ call.args[1] # call.args[2]
  /\ pre[call.args[1]].events # <<>>
  /\ in_beats(pre[call.args[1]].offset) # 0
  /\ pre[call.args[2]].events # <<>>
  /\ in_beats(pre[call.args[2]].offset) # 0
  /\ num_events(ret.span) = num_events(pre[call.args[1]]) + num_events(pre[call.args[2]])

\* C8: concat(a, b) returns a span of offset zero: a's events, then b's
\* events shifted by a's length; its length is length(a) + length(b).
C8_ConcatPlacesSequentially ==
  (/\ call.op = "concat"
   /\ Len(call.args) = 2
   /\ pre[call.args[1]].events # <<>>
   /\ pre[call.args[2]].events # <<>>)
  => LET a == pre[call.args[1]]
         b == pre[call.args[2]]
         la == calculate_span_length(a.events)
         lb == calculate_span_length(b.events)
     IN  /\ call.err = "none"
         /\ in_beats(ret.span.offset) = 0
         /\ calculate_span_length(ret.span.events) = la + lb
         /\ SameBag(PlacedEvents(ret.span),
                    [i \in 1..Len(a.events) |-> Placed(a.events[i], 0)]
                    \o [i \in 1..Len(b.events) |-> Placed(b.events[i], la)])

\* The windows [k*r, (k+1)*r) with k*r < L, in order.
Windows(L, r) == [k \in 1..((L + r - 1) \div r) |-> <<(k - 1) * r, k * r>>]
NaturalLength(s) == IF s.events = <<>> THEN 0 ELSE calculate_span_length(s.events)
IsPrefix(a, b) == Len(a) <= Len(b) /\ a = SubSeq(b, 1, Len(a))

\* C9: generate_slices(r), r > 0, on a span of natural length L yields the
\* windows [k*r, (k+1)*r) for k = 0, 1, ... while k*r < L, in order, and
\* nothing else.
C9_SliceWindows ==
  /\ (gen.state = "running" /\ gen.r > 0) =>
       IsPrefix(yielded, Windows(NaturalLength(heap[gen.ref]), gen.r))
  /\ (gen.state \in {"exhausted", "raised"} /\ gen.r > 0) =>
       /\ gen.state = "exhausted"
       /\ yielded = Windows(NaturalLength(heap[gen.ref]), gen.r)

\* C10: move_offset_to_events() sets the offset to zero and every onset to
\* the old onset plus the old offset, the events otherwise as they were; a
\* second call changes nothing.
C10_OffsetFoldedIntoOnsets ==
  call.op = "move_offset_to_events" =>
    LET old == pre[call.ref]
        new == heap[call.ref]
    IN  /\ in_beats(new.offset) = 0
        /\ Len(new.events) = Len(old.events)
        /\ \A i \in 1..Len(old.events) :
             /\ in_beats(new.events[i].time)
                  = in_beats(old.events[i].time) + in_beats(old.offset)
             /\ unwrap(new.events[i]) = unwrap(old.events[i])
        /\ move_offset_to_events(new) = new

\* The step count of T re-quantized to the resolution res.
StepsAt(T, res) == quantize_to(T, res).t \div res
\* The smaller of the resolutions of a and b, an unquantized Time having none.
SmallerResolution(a, b) ==
  IF a.res = NoneRes THEN b.res
  ELSE IF b.res = NoneRes THEN a.res
  ELSE IF a.res < b.res THEN a.res ELSE b.res

\* C11: a == b returns a boolean for every two Times: at one resolution,
\* whether their step counts are equal; at two resolutions (one of them may be
\* None), whether their step counts at the smaller resolution are equal; and
\* both operands keep their value and resolution.
C11_TimeEquality ==
  (call.op = "Time.__eq__" /\ call.args[2] # 0) =>
    LET a == call.input[1]
        b == call.input[2]
    IN  /\ call.err = "none"
        /\ ret.val \in BOOLEAN
        /\ (a.res = b.res /\ a.res # NoneRes) =>
             (ret.val = (a.t \div a.res = b.t \div b.res))
        /\ a.res # b.res =>
             (ret.val = (StepsAt(a, SmallerResolution(a, b))
                         = StepsAt(b, SmallerResolution(a, b))))
        /\ times[call.args[1]] = a
        /\ times[call.args[2]] = b

\* C12: parsing a pitch string returns a relative pitch in [0,12) or raises
\* ValueError (InvalidPitchName), never an error of another kind.
C12_ParseOrInvalidPitchName ==
  call.op = "pitch_string_to_pitch_octave_pair" =>
    \/ call.err = "none" /\ ret.val[1] \in 0..11
    \/ call.err = "ValueError"

\* A table key with its '-' flat written as 'b'.
FlatToB(key) ==
  IF key[Len(key)] = "-" THEN [key EXCEPT ![Len(key)] = "b"] ELSE key
NameOfKey == call.op = "Pitch.name" /\ call.input[1] \in DOMAIN str_to_relative_pitch

\* C13 as stated: for every key s of the name table (naturals, sharps, both
\* flat spellings), Pitch(s).name() is s with its '-' flat written as 'b'.
C13_NameRoundTrip ==
  NameOfKey => (call.err = "none" /\ ret.val = FlatToB(call.input[1]))

\* C13 amended: for every key s of the name table, Pitch(s).name() is s with
\* its '-' flat written as 'b' when s is a natural or a flat, and when s is a
\* sharp it is the 'b' flat name of the same relative pitch.
C13_NameIsCanonicalSpelling ==
  NameOfKey =>
    LET key == call.input[1]
    IN  /\ call.err = "none"
        /\ IF key[Len(key)] = "#"
           THEN /\ ret.val[Len(ret.val)] = "b"
                /\ ret.val \in DOMAIN str_to_relative_pitch
                /\ str_to_relative_pitch[ret.val] = str_to_relative_pitch[key]
           ELSE ret.val = FlatToB(key)

\* Pitch('C#').name() returned 'Db'.
C13_Witness ==
  /\ call.op = "Pitch.name"
  /\ call.err = "none"
  /\ call.input[1] = <<"C", "#">>
  /\ ret.val = <<"D", "b">>

Notes(events) == SelectSeq(events, LAMBDA e : e.kind = "Note")

\* C14: discard_rests() completes on every Piece; afterwards no bar holds a
\* Rest, every bar holds its Notes as before, at their onsets and in their
\* order, and the bars and their offsets are the same.
C14_DiscardRests ==
  call.op = "discard_rests" =>
    /\ call.err = "none"
    /\ piece = call.args
    /\ \A i \in 1..Len(piece) :
         /\ \A k \in 1..Len(heap[piece[i]].events) :
              heap[piece[i]].events[k].kind # "Rest"
         /\ heap[piece[i]].events = Notes(pre[piece[i]].events)
         /\ heap[piece[i]].offset = pre[piece[i]].offset

\* C15: as_span() on a Piece of zero or more bars returns a span of offset
\* zero that holds count_events() events, each at its onset plus the offset
\* of its bar, and leaves the bars as they were.
C15_AsSpanIsOverlayOfBars ==
  call.op = "as_span" =>
    /\ call.err = "none"
    /\ in_beats(ret.span.offset) = 0
    /\ num_events(ret.span) = count_events(pre, piece)
    /\ SameBag(PlacedEvents(ret.span), PlacedUnion(pre, piece))
    /\ \A i \in 1..Len(piece) : heap[piece[i]] = pre[piece[i]]

\* The sign of a number.
Sign(x) == IF x < 0 THEN -1 ELSE IF x > 0 THEN 1 ELSE 0
ClaimMidi(p) == p.rel + 12 * (p.oct + 1)

\* C16: Pitch.compare(a, b) for two pitches with octaves is negative when a
\* is lower than b, 0 when they are the same pitch, positive when a is
\* higher: its sign is the sign of midi(a) - midi(b).
C16_CompareSign ==
  call.op = "Pitch.compare" =>
    Sign(ret.val) = Sign(ClaimMidi(call.input[1]) - ClaimMidi(call.input[2]))

PositiveDurations(events) == \A i \in 1..Len(events) : in_beats(events[i].dur) > 0

\* C17: pad_to_length(T) on a span with events, of natural length L: with
\* T <= L the span stays as it is; otherwise one Rest of duration T - L is
\* appended at onset L and nothing else changes, so that the length is
\* max(L, T); a sorted span of events of positive duration stays sorted.
C17_PadToLength ==
  (call.op = "pad_to_length" /\ pre[call.ref].events # <<>>) =>
    LET old == pre[call.ref]
        new == heap[call.ref]
        L == NaturalLength(old)
        T == call.num
        rest == new.events[Len(new.events)]
    IN  /\ call.err = "none"
        /\ IF T <= L THEN new = old
           ELSE /\ new.offset = old.offset
                /\ Len(new.events) = Len(old.events) + 1
                /\ SubSeq(new.events, 1, Len(old.events)) = old.events
                /\ rest.kind = "Rest"
                /\ in_beats(rest.dur) = T - L
                /\ in_beats(rest.time) = L
        /\ NaturalLength(new) = (IF T <= L THEN L ELSE T)
        /\ (SortedByKey(old.events) /\ PositiveDurations(old.events))
             => SortedByKey(new.events)

\* What is left of the span behind the start of the generator's next window.
Remaining(g) == NaturalLength(heap[g.ref]) - g.t

\* C18: generate_slices yields a finite sequence for every span and every
\* slice_resolution: every window it yields leaves less of the span behind
\* its start than the window before, so that the pulls run out.
C18_SlicesFinite ==
  [][(gen.state = "running" /\ gen'.state = "running")
       => Remaining(gen') < Remaining(gen)]_vars

\* The windows that hold the onset of the event e.
WindowsOf(e) ==
  {k \in 1..Len(yielded) :
     \E i \in 1..Len(sliced_events(heap[gen.ref], yielded[k])) :
       sliced_events(heap[gen.ref], yielded[k])[i] = e}
RECURSIVE TotalSliced(_, _)
TotalSliced(s, windows) ==
  IF windows = <<>> THEN 0
  ELSE Len(sliced_events(s, Head(windows))) + TotalSliced(s, Tail(windows))

\* C19: when generate_slices(r), r > 0, is through, every event of the span
\* has its onset in exactly one of the windows, and the events of all slices
\* together are num_events() many.
C19_SlicesPartitionEvents ==
  (gen.state \in {"exhausted", "raised"} /\ gen.r > 0) =>
    /\ \A i \in 1..Len(heap[gen.ref].events) :
         Cardinality(WindowsOf(heap[gen.ref].events[i])) = 1
    /\ TotalSliced(heap[gen.ref], yielded) = num_events(heap[gen.ref])

AllQuantized == \A i \in 1..Len(times) : is_quantized(times[i])

\* C20: equality of quantized Times, at any mix of resolutions, is an
\* equivalence relation: a == a; a == b implies b == a; a == b and b == c
\* imply a == c.
C20_TimeEqualityIsEquivalence ==
  (call.op = "Time.__eq__" /\ call.args[2] # 0 /\ AllQuantized) =>
    LET a == times[call.args[1]]
        b == times[call.args[2]]
    IN  /\ call.err = "none"
        /\ call.args[1] = call.args[2] => ret.val
        /\ ret.val => TimeEq(b, a).val
        /\ \A k \in 1..Len(times) :
             (ret.val /\ TimeEq(b, times[k]).val) => TimeEq(a, times[k]).val

====
